---- MODULE Spec2Model ----
(***************************************************************************)
(* Breadth-first simulation of a nondeterministic Turing machine, after    *)
(* src/NTM_Simulation_sco.py: parse_tm_file builds the transition table,   *)
(* bfs_simulation runs the queue loop, output_result writes the report.    *)
(***************************************************************************)
EXTENDS Integers, Sequences, FiniteSets, TLC

VARIABLES
    tm,          \* the machine description returned by parse_tm_file
    input_str,   \* the input string, a sequence of symbols
    max_steps,   \* the step budget
    run,         \* the locals of one call of bfs_simulation, and its report
    twin         \* a second call on the same arguments (stepped only by SpecPair)

vars == <<tm, input_str, max_steps, run, twin>>

\* ------------------------------------------------------------------ bounds

MaxInputLen == 2
MaxBudget == 4
MaxShifts == 3

\* ---------------------------------------------------------------- helpers

Blank == "_"

Last(s) == s[Len(s)]

Front(s) == SubSeq(s, 1, Len(s) - 1)

RECURSIVE MaxOf(_)
MaxOf(S) == IF S = {} THEN 0
            ELSE LET x == CHOOSE y \in S : TRUE
                     m == MaxOf(S \ {x})
                 IN  IF x > m THEN x ELSE m

\* ----------------------------------------------------------- parse_tm_file

\* A transition line of the machine file, split on ',': three parts
\* (src, read, dest) or five (src, read, dest, write, move).
Rule(parts) ==
    IF Len(parts) = 3
    THEN [dest |-> parts[3], write |-> parts[2], move |-> "R"]
    ELSE [dest |-> parts[3], write |-> parts[4], move |-> parts[5]]

\* transitions[src][read_char].append((dest, write_char, move)), line by line.
RECURSIVE ParseTransitions(_, _)
ParseTransitions(lines, transitions) ==
    IF lines = <<>> THEN transitions
    ELSE LET parts == Head(lines)
             key   == <<parts[1], parts[2]>>
             t     == IF key \in DOMAIN transitions
                      THEN [transitions EXCEPT ![key] = Append(@, Rule(parts))]
                      ELSE transitions @@ (key :> <<Rule(parts)>>)
         IN  ParseTransitions(Tail(lines), t)

parse_tm_file(start, accept, reject, lines) ==
    [ start_state   |-> start,
      accept_states |-> accept,
      reject_state  |-> reject,
      transitions   |-> ParseTransitions(lines, [k \in {} |-> <<>>]) ]

\* ---------------------------------------------------------- bfs_simulation

\* tm['transitions'].get(state, {}).get(head, None); None and [] are both
\* falsy and are both read as the empty sequence.
Lookup(m, state, head) ==
    IF <<state, head>> \in DOMAIN m.transitions
    THEN m.transitions[<<state, head>>]
    ELSE <<>>

\* The root configuration.
InitialTape(m, str) ==
    [ state |-> m.start_state,
      left  |-> <<>>,
      head  |-> IF str # <<>> THEN Head(str) ELSE Blank,
      right |-> IF str # <<>> THEN Tail(str) ELSE <<>> ]

\* NewTape with the write forgotten: the cell keeps the symbol that was read.
NewTape_NoWrite(current_tape, rule) ==
    LET new_tape == [ state |-> rule.dest,
                      left  |-> current_tape.left,
                      head  |-> current_tape.head,
                      right |-> current_tape.right ]
    IN  IF rule.move = "R"
        THEN [ new_tape EXCEPT
                 !.left  = Append(new_tape.left, new_tape.head),
                 !.head  = IF new_tape.right # <<>> THEN Head(new_tape.right) ELSE Blank,
                 !.right = IF new_tape.right # <<>> THEN Tail(new_tape.right) ELSE <<>> ]
        ELSE [ new_tape EXCEPT
                 !.right = <<new_tape.head>> \o new_tape.right,
                 !.head  = IF new_tape.left # <<>> THEN Last(new_tape.left) ELSE Blank,
                 !.left  = IF new_tape.left # <<>> THEN Front(new_tape.left) ELSE <<>> ]

\* NewTape with the head left in place when a move left finds no cell there.
NewTape_StuckAtEdge(current_tape, rule) ==
    LET new_tape == [ state |-> rule.dest,
                      left  |-> current_tape.left,
                      head  |-> rule.write,
                      right |-> current_tape.right ]
    IN  IF rule.move = "R"
        THEN [ new_tape EXCEPT
                 !.left  = Append(new_tape.left, new_tape.head),
                 !.head  = IF new_tape.right # <<>> THEN Head(new_tape.right) ELSE Blank,
                 !.right = IF new_tape.right # <<>> THEN Tail(new_tape.right) ELSE <<>> ]
        ELSE [ new_tape EXCEPT
                 !.right = <<new_tape.head>> \o new_tape.right,
                 !.head  = IF new_tape.left # <<>> THEN Last(new_tape.left) ELSE new_tape.head,
                 !.left  = IF new_tape.left # <<>> THEN Front(new_tape.left) ELSE <<>> ]

\* One pass of the body of `for dest, write, direction in transitions`.
NewTape(current_tape, rule) ==
    LET new_tape == [ state |-> rule.dest,
                      left  |-> current_tape.left,
                      head  |-> rule.write,
                      right |-> current_tape.right ]
    IN  IF rule.move = "R"
        THEN [ new_tape EXCEPT
                 !.left  = Append(new_tape.left, new_tape.head),
                 !.head  = IF new_tape.right # <<>> THEN Head(new_tape.right) ELSE Blank,
                 !.right = IF new_tape.right # <<>> THEN Tail(new_tape.right) ELSE <<>> ]
        ELSE IF rule.move = "L"
        THEN [ new_tape EXCEPT
                 !.right = <<new_tape.head>> \o new_tape.right,
                 !.head  = IF new_tape.left # <<>> THEN Last(new_tape.left) ELSE Blank,
                 !.left  = IF new_tape.left # <<>> THEN Front(new_tape.left) ELSE <<>> ]
        ELSE new_tape

\* Entry with the child left at its parent's depth.
Entry_SameDepth(current_tape, depth, path, rule) ==
    LET new_tape == NewTape(current_tape, rule)
    IN  [tape |-> new_tape, depth |-> depth, path |-> Append(path, new_tape)]

\* Entry taking the length of the child's path for its depth.
Entry_CountsCells(current_tape, depth, path, rule) ==
    LET new_tape == NewTape(current_tape, rule)
    IN  [tape |-> new_tape, depth |-> Len(path) + 1, path |-> Append(path, new_tape)]

\* queue.append((new_tape, depth + 1, path + [new_tape]))
Entry(current_tape, depth, path, rule) ==
    LET new_tape == NewTape(current_tape, rule)
    IN  [tape |-> new_tape, depth |-> depth + 1, path |-> Append(path, new_tape)]

\* Successors appended last rule first.
Successors_Reversed(current_tape, depth, path, transitions) ==
    [i \in 1..Len(transitions) |->
        Entry(current_tape, depth, path, transitions[Len(transitions) + 1 - i])]

\* The entries the for loop appends, in the order of the rules.
Successors(current_tape, depth, path, transitions) ==
    [i \in 1..Len(transitions) |-> Entry(current_tape, depth, path, transitions[i])]

\* visited_depths[depth].append(current_tape), creating the list when missing.
Track(visited_depths, depth, current_tape) ==
    IF depth \in DOMAIN visited_depths
    THEN [visited_depths EXCEPT ![depth] = Append(@, current_tape)]
    ELSE visited_depths @@ (depth :> <<current_tape>>)

\* The loop's locals before the first iteration binds them.
NoTape == [state |-> "", left |-> <<>>, head |-> "", right |-> <<>>]

NoReport == [outcome |-> "", depth |-> 0, transitions |-> 0, accepted_in |-> 0, path |-> <<>>]

\* The state of bfs_simulation on entering the loop.
Start(m, str) ==
    LET tape == InitialTape(m, str)
    IN  [ pc             |-> "while",
          queue          |-> <<[tape |-> tape, depth |-> 0, path |-> <<tape>>]>>,
          visited_depths |-> [d \in {} |-> <<>>],
          steps          |-> 0,
          accepted       |-> FALSE,
          current_tape   |-> NoTape,
          depth          |-> 0,
          path           |-> <<>>,
          out            |-> NoReport ]

\* LoopCond with the budget test off by one.
LoopCond_Inclusive(s) == s.queue # <<>> /\ s.steps <= max_steps

\* while queue and steps < max_steps
LoopCond(s) == s.queue # <<>> /\ s.steps < max_steps

\* Dequeue taking the newest entry (queue.pop()): depth-first order.
Dequeue_Pop(s) ==
    LET e == Last(s.queue)
    IN  [ s EXCEPT !.queue          = Front(s.queue),
                   !.current_tape   = e.tape,
                   !.depth          = e.depth,
                   !.path           = e.path,
                   !.visited_depths = Track(s.visited_depths, e.depth, e.tape) ]

\* current_tape, depth, path = queue.popleft(), and the visited_depths update.
Dequeue(s) ==
    LET e == Head(s.queue)
    IN  [ s EXCEPT !.queue          = Tail(s.queue),
                   !.current_tape   = e.tape,
                   !.depth          = e.depth,
                   !.path           = e.path,
                   !.visited_depths = Track(s.visited_depths, e.depth, e.tape) ]

IsAccepting(tape) == tape.state \in tm.accept_states

IsRejecting(tape) == tape.state = tm.reject_state

\* An iteration that dequeues a configuration in an accept state: break.
AcceptStep(s, t) ==
    /\ s.pc = "while"
    /\ LoopCond(s)
    /\ LET d == Dequeue(s)
       IN  /\ IsAccepting(d.current_tape)
           /\ t = [d EXCEPT !.accepted = TRUE, !.pc = "output"]

\* RejectStep without the test of the reject state: the configuration is
\* expanded like any other.
RejectStep_Expands(s, t) ==
    /\ s.pc = "while"
    /\ LoopCond(s)
    /\ LET d == Dequeue(s)
           transitions == Lookup(tm, d.current_tape.state, d.current_tape.head)
       IN  /\ ~IsAccepting(d.current_tape)
           /\ IsRejecting(d.current_tape)
           /\ t = IF transitions = <<>> THEN d
                  ELSE [ d EXCEPT
                           !.queue = d.queue \o Successors(d.current_tape, d.depth, d.path, transitions),
                           !.steps = d.steps + 1 ]

\* An iteration that dequeues a configuration in the reject state: continue.
RejectStep(s, t) ==
    /\ s.pc = "while"
    /\ LoopCond(s)
    /\ LET d == Dequeue(s)
       IN  /\ ~IsAccepting(d.current_tape)
           /\ IsRejecting(d.current_tape)
           /\ t = d

\* DeadEndStep counting the dead end as a step.
DeadEndStep_Counted(s, t) ==
    /\ s.pc = "while"
    /\ LoopCond(s)
    /\ LET d == Dequeue(s)
       IN  /\ ~IsAccepting(d.current_tape)
           /\ ~IsRejecting(d.current_tape)
           /\ Lookup(tm, d.current_tape.state, d.current_tape.head) = <<>>
           /\ t = [d EXCEPT !.steps = d.steps + 1]

\* An iteration that finds no transition for (state, head): continue.
DeadEndStep(s, t) ==
    /\ s.pc = "while"
    /\ LoopCond(s)
    /\ LET d == Dequeue(s)
       IN  /\ ~IsAccepting(d.current_tape)
           /\ ~IsRejecting(d.current_tape)
           /\ Lookup(tm, d.current_tape.state, d.current_tape.head) = <<>>
           /\ t = d

\* The rearrangements of a sequence.
Rearrangements(seq) ==
    { [i \in 1..Len(seq) |-> seq[p[i]]] :
        p \in {q \in [1..Len(seq) -> 1..Len(seq)] :
                 \A i, j \in 1..Len(seq) : q[i] = q[j] => i = j} }

\* ExpandStep appending the successors in an order left open, as iterating
\* an unordered collection of rules would.
ExpandStep_AnyOrder(s, t) ==
    /\ s.pc = "while"
    /\ LoopCond(s)
    /\ LET d == Dequeue(s)
           transitions == Lookup(tm, d.current_tape.state, d.current_tape.head)
       IN  /\ ~IsAccepting(d.current_tape)
           /\ ~IsRejecting(d.current_tape)
           /\ transitions # <<>>
           /\ \E rules \in Rearrangements(transitions) :
                 t = [ d EXCEPT
                         !.queue = d.queue \o Successors(d.current_tape, d.depth, d.path, rules),
                         !.steps = d.steps + 1 ]

\* The symbols the rules that move right append to left.
RECURSIVE WritesRight(_)
WritesRight(transitions) ==
    IF transitions = <<>> THEN <<>>
    ELSE (IF Head(transitions).move = "R" THEN <<Head(transitions).write>> ELSE <<>>)
         \o WritesRight(Tail(transitions))

\* ExpandStep with new_tape sharing the parent's left list instead of
\* copying it: what the rules append shows in the parent, where it is the
\* current tape and where visited_depths recorded it.
ExpandStep_SharedLeft(s, t) ==
    /\ s.pc = "while"
    /\ LoopCond(s)
    /\ LET d == Dequeue(s)
           transitions == Lookup(tm, d.current_tape.state, d.current_tape.head)
           parent == [ d.current_tape EXCEPT
                         !.left = d.current_tape.left \o WritesRight(transitions) ]
           seen == d.visited_depths[d.depth]
       IN  /\ ~IsAccepting(d.current_tape)
           /\ ~IsRejecting(d.current_tape)
           /\ transitions # <<>>
           /\ t = [ d EXCEPT
                      !.queue = d.queue \o Successors(d.current_tape, d.depth, d.path, transitions),
                      !.steps = d.steps + 1,
                      !.current_tape = parent,
                      !.visited_depths = [d.visited_depths EXCEPT
                                            ![d.depth] = Append(Front(seen), parent)] ]

\* An iteration that applies every transition for (state, head); steps += 1.
ExpandStep(s, t) ==
    /\ s.pc = "while"
    /\ LoopCond(s)
    /\ LET d == Dequeue(s)
           transitions == Lookup(tm, d.current_tape.state, d.current_tape.head)
       IN  /\ ~IsAccepting(d.current_tape)
           /\ ~IsRejecting(d.current_tape)
           /\ transitions # <<>>
           /\ t = [ d EXCEPT
                      !.queue = d.queue \o Successors(d.current_tape, d.depth, d.path, transitions),
                      !.steps = d.steps + 1 ]

\* ExitStep for a loop that tests the queue alone (while queue): with the
\* budget used up and entries still queued the loop is never left.
ExitStep_OnlyEmpty(s, t) ==
    /\ s.pc = "while"
    /\ s.queue = <<>>
    /\ t = [s EXCEPT !.pc = "output"]

\* The loop condition is false: fall through to the call of output_result.
ExitStep(s, t) ==
    /\ s.pc = "while"
    /\ ~LoopCond(s)
    /\ t = [s EXCEPT !.pc = "output"]

\* ----------------------------------------------------------- output_result

\* output_result taking the number of depths seen for the depth of the tree.
output_result_Len(steps, accepted, visited_depths, path) ==
    [ outcome     |-> IF accepted THEN "Accepted"
                      ELSE IF steps < max_steps THEN "Rejected"
                      ELSE "Inconclusive",
      depth       |-> Cardinality(DOMAIN visited_depths),
      transitions |-> steps,
      accepted_in |-> IF accepted THEN Len(path) - 1 ELSE 0,
      path        |-> path ]

\* output_result with the budget test off by one.
output_result_Le(steps, accepted, visited_depths, path) ==
    [ outcome     |-> IF accepted THEN "Accepted"
                      ELSE IF steps <= max_steps THEN "Rejected"
                      ELSE "Inconclusive",
      depth       |-> MaxOf(DOMAIN visited_depths),
      transitions |-> steps,
      accepted_in |-> IF accepted THEN Len(path) - 1 ELSE 0,
      path        |-> path ]

\* What output_result prints, from the arguments of the call on line 150.
output_result(steps, accepted, visited_depths, path) ==
    LET tree == MaxOf(DOMAIN visited_depths)
    IN  [ outcome     |-> IF accepted THEN "Accepted"
                          ELSE IF steps < max_steps THEN "Rejected"
                          ELSE "Inconclusive",
          depth       |-> tree,
          transitions |-> steps,
          accepted_in |-> IF accepted THEN Len(path) - 1 ELSE 0,
          path        |-> path ]

OutputStep(s, t) ==
    /\ s.pc = "output"
    /\ t = [ s EXCEPT
               !.out = output_result(s.steps, s.accepted, s.visited_depths,
                                     IF s.accepted THEN s.path ELSE <<>>),
               !.pc  = "done" ]

Iterate(s, t) ==
    \/ AcceptStep(s, t)
    \/ RejectStep(s, t)
    \/ DeadEndStep(s, t)
    \/ ExpandStep(s, t)
    \/ ExitStep(s, t)
    \/ OutputStep(s, t)

\* ----------------------------------------------------------------- inputs

Symbols == {"a", "b", Blank}

InputSymbols == {"a", "b"}

Inputs == UNION {[1..n -> InputSymbols] : n \in 0..MaxInputLen}

\* Every budget up to the bound, and the budget of the specification's scenario A.
Budgets == (0..MaxBudget) \cup {10}

\* The transition lines of the machine file, chosen key by key; the lines of
\* one key keep their order of declaration.
LinesQ0A ==
    { <<>>,
      << <<"q0", "a", "qf">> >>,
      << <<"q0", "a", "qf", "a", "R">>, <<"q0", "a", "q1", "a", "R">> >>,
      << <<"q0", "a", "q1", "a", "R">>, <<"q0", "a", "qf", "a", "R">> >>,
      << <<"q0", "a", "q1", "b", "L">> >>,
      << <<"q0", "a", "qr", "a", "R">>, <<"q0", "a", "q1", "a", "L">> >>,
      << <<"q0", "a", "qf", "b", "L">>, <<"q0", "a", "qf", "a", "R">> >>,
      << <<"q0", "a", "q1", "b", "L">>, <<"q0", "a", "q1", "a", "R">> >> }

LinesQ0Blank ==
    { <<>>,
      << <<"q0", "_", "q1", "_", "L">> >>,
      << <<"q0", "_", "qf">> >> }

LinesQ1A ==
    { <<>>,
      << <<"q1", "a", "q1">> >>,
      << <<"q1", "a", "qf", "b", "L">> >> }

LinesQ1Blank ==
    { <<>>,
      << <<"q1", "_", "q1", "_", "R">> >>,
      << <<"q1", "_", "q0", "a", "L">> >>,
      << <<"q1", "_", "qf", "a", "L">>, <<"q1", "_", "q1", "b", "R">> >> }

\* Lines that leave the accept and the reject state.
LinesTerminal ==
    { <<>>,
      << <<"qf", "_", "q1", "_", "R">>, <<"qr", "_", "q1", "_", "R">>,
         <<"qr", "a", "qf", "a", "R">> >> }

AcceptChoices == { {"qf"}, {"q0"}, {"qf", "qr"} }

Machines ==
    { parse_tm_file("q0", acc, "qr", l1 \o l2 \o l3 \o l4 \o l5) :
        acc \in AcceptChoices, l1 \in LinesQ0A, l2 \in LinesQ0Blank,
        l3 \in LinesQ1A, l4 \in LinesQ1Blank, l5 \in LinesTerminal }

\* ----------------------------------------------------------- specification

Init ==
    /\ tm \in Machines
    /\ input_str \in Inputs
    /\ max_steps \in Budgets
    /\ run = Start(tm, input_str)
    /\ twin = Start(tm, input_str)

Accept == AcceptStep(run, run') /\ UNCHANGED <<tm, input_str, max_steps, twin>>

Reject == RejectStep(run, run') /\ UNCHANGED <<tm, input_str, max_steps, twin>>

DeadEnd == DeadEndStep(run, run') /\ UNCHANGED <<tm, input_str, max_steps, twin>>

Expand == ExpandStep(run, run') /\ UNCHANGED <<tm, input_str, max_steps, twin>>

Exit == ExitStep(run, run') /\ UNCHANGED <<tm, input_str, max_steps, twin>>

Output == OutputStep(run, run') /\ UNCHANGED <<tm, input_str, max_steps, twin>>

Next == Accept \/ Reject \/ DeadEnd \/ Expand \/ Exit \/ Output

Spec == Init /\ [][Next]_vars

\* Init with the budgets up to the bound only.
InitBounded == Init /\ max_steps \in 0..MaxBudget

\* The call runs on without suspension: a step that can be taken is taken.
FairSpec == InitBounded /\ [][Next]_vars /\ WF_vars(Next)

\* Two calls on the same arguments, stepped side by side.
NextPair ==
    /\ Iterate(run, run')
    /\ Iterate(twin, twin')
    /\ UNCHANGED <<tm, input_str, max_steps>>

SpecPair == Init /\ [][NextPair]_vars

\* ------------------------------------------------- transitions on one tape

\* The two-way infinite tape the configurations stand for: the cells that
\* were given or written, blank elsewhere, and the position of the head.
InfiniteTape(str) ==
    [ cells |-> [p \in 0..(Len(str) - 1) |-> str[p + 1]], pos |-> 0 ]

CellAt(tape, p) == IF p \in DOMAIN tape.cells THEN tape.cells[p] ELSE Blank

\* One transition on the infinite tape: write under the head, move one cell.
Transition(tape, rule) ==
    [ cells |-> (tape.pos :> rule.write) @@ tape.cells,
      pos   |-> IF rule.move = "R" THEN tape.pos + 1 ELSE tape.pos - 1 ]

\* The root configuration of an input, before any transition; twin holds the
\* infinite tape under the same transitions.
InitTape ==
    /\ tm = parse_tm_file("q0", {"qf"}, "qr", <<>>)
    /\ input_str \in Inputs
    /\ max_steps = MaxShifts
    /\ run = [ current_tape |-> InitialTape(tm, input_str),
               path         |-> <<InitialTape(tm, input_str)>>,
               rules        |-> <<>>,
               steps        |-> 0 ]
    /\ twin = InfiniteTape(input_str)

\* Lines 124-146 for one rule, on the current configuration.
Applied(rule) ==
    LET new_tape == NewTape(run.current_tape, rule)
    IN  [ current_tape |-> new_tape,
          path         |-> Append(run.path, new_tape),
          rules        |-> Append(run.rules, rule),
          steps        |-> run.steps + 1 ]

MoveRight ==
    /\ run.steps < max_steps
    /\ \E w \in Symbols :
          LET rule == [dest |-> "q0", write |-> w, move |-> "R"]
          IN  run' = Applied(rule) /\ twin' = Transition(twin, rule)
    /\ UNCHANGED <<tm, input_str, max_steps>>

MoveLeft ==
    /\ run.steps < max_steps
    /\ \E w \in Symbols :
          LET rule == [dest |-> "q0", write |-> w, move |-> "L"]
          IN  run' = Applied(rule) /\ twin' = Transition(twin, rule)
    /\ UNCHANGED <<tm, input_str, max_steps>>

NextTape == MoveRight \/ MoveLeft

SpecTape == InitTape /\ [][NextTape]_vars

\* ------------------------------------------------------------- properties

Done == run.pc = "done"

Root == InitialTape(tm, input_str)

IsTerminal(tape) == IsAccepting(tape) \/ IsRejecting(tape)

\* The configurations one transition away from a configuration that is
\* neither accepting nor rejecting.
Children(tape) ==
    IF IsTerminal(tape) THEN {}
    ELSE LET rules == Lookup(tm, tape.state, tape.head)
         IN  {NewTape(tape, rules[i]) : i \in 1..Len(rules)}

\* Generation k: the configurations exactly k transitions away from the root.
RECURSIVE Generation(_)
Generation(k) ==
    IF k = 0 THEN {Root} ELSE UNION {Children(c) : c \in Generation(k - 1)}

Range(seq) == {seq[i] : i \in 1..Len(seq)}

\* The configurations dequeued at depth k.
Visited(k) ==
    IF k \in DOMAIN run.visited_depths THEN Range(run.visited_depths[k]) ELSE {}

RECURSIVE SumLen(_, _)
SumLen(f, S) ==
    IF S = {} THEN 0
    ELSE LET x == CHOOSE y \in S : TRUE IN Len(f[x]) + SumLen(f, S \ {x})

\* The successor configurations created so far: every configuration but the
\* root is one, and each is either still queued or recorded as dequeued.
Applications ==
    Len(run.queue) + SumLen(run.visited_depths, DOMAIN run.visited_depths) - 1

\* C1: the step counter never exceeds the budget, neither inside the loop
\* nor in the reported total.
C1_StepsWithinBudget ==
    /\ run.steps <= max_steps
    /\ Done => run.out.transitions <= max_steps

C1_Witness ==
    Done /\ max_steps > 0 /\ run.out.transitions = max_steps /\ run.queue # <<>>

\* C2: when the run accepts a witness dequeued at depth d, nothing shallower
\* than d is still queued, and every generation below d has been dequeued
\* in full and holds no accepting configuration.
C2_ShortestPath ==
    run.accepted =>
        /\ IsAccepting(run.current_tape)
        /\ \A i \in 1..Len(run.queue) : run.queue[i].depth >= run.depth
        /\ \A k \in 0..(run.depth - 1) :
              /\ Visited(k) = Generation(k)
              /\ \A c \in Generation(k) : ~IsAccepting(c)

C2_Witness ==
    /\ run.accepted
    /\ run.depth = 2
    /\ Cardinality(Generation(1)) = 2
    /\ run.queue # <<>>

\* One rule of the table applied to configuration c gives configuration n:
\* the head cell is written, then the head moves one cell.
OneTransition(c, n) ==
    /\ ~IsTerminal(c)
    /\ \E r \in Range(Lookup(tm, c.state, c.head)) :
          /\ n.state = r.dest
          /\ \/ /\ r.move = "R"
                /\ n.left = Append(c.left, r.write)
                /\ <<n.head>> \o n.right = (IF c.right = <<>> THEN <<Blank>> ELSE c.right)
             \/ /\ r.move = "L"
                /\ n.right = <<r.write>> \o c.right
                /\ Append(n.left, n.head) = (IF c.left = <<>> THEN <<Blank>> ELSE c.left)

\* C3: the reported path of an accepting run goes from the root to the
\* witness, one transition of the table at a time.
C3_PathIsComputation ==
    (Done /\ run.out.outcome = "Accepted") =>
        LET path == run.out.path
        IN  /\ Len(path) >= 1
            /\ path[1].state = tm.start_state
            /\ path[1].left = <<>>
            /\ <<path[1].head>> \o path[1].right =
                   (IF input_str = <<>> THEN <<Blank>> ELSE input_str)
            /\ Last(path) = run.current_tape
            /\ IsAccepting(Last(path))
            /\ \A i \in 1..(Len(path) - 1) : OneTransition(path[i], path[i + 1])

C3_Witness ==
    /\ Done
    /\ run.out.outcome = "Accepted"
    /\ Len(run.out.path) = 3
    /\ run.out.path[2].left = <<>>
    /\ run.out.path[2].right # <<>>
    /\ run.out.path[2].right[1] # run.out.path[1].head

\* C4: a run that ends without acceptance reports Inconclusive exactly when
\* the budget is used up with configurations still queued, and Rejected
\* exactly when the queue is empty.
C4_InconclusiveNotRejected ==
    (Done /\ ~run.accepted) =>
        /\ run.out.outcome \in {"Inconclusive", "Rejected"}
        /\ run.out.outcome = "Inconclusive" <=>
               (run.steps = max_steps /\ run.queue # <<>>)
        /\ run.out.outcome = "Rejected" <=> run.queue = <<>>

C4_Witness ==
    Done /\ run.out.outcome = "Inconclusive" /\ max_steps > 0 /\ Len(run.queue) >= 2

\* The depth of the last generation that is not empty, looking no deeper
\* than the budget allows.
RECURSIVE LastGeneration(_)
LastGeneration(k) ==
    IF k >= max_steps \/ Generation(k + 1) = {} THEN k ELSE LastGeneration(k + 1)

\* C5: a run whose queue empties before the budget is reached reports
\* Rejected at the depth of the last non-empty generation; a root that is not
\* accepting and has no rule gives Rejected, depth 0 and 0 transitions
\* under any positive budget.
C5_EmptyFrontierRejected ==
    /\ (Done /\ ~run.accepted /\ run.queue = <<>>) =>
           /\ run.out.outcome = "Rejected"
           /\ run.out.depth = LastGeneration(0)
           /\ Generation(run.out.depth + 1) = {}
    /\ (Done /\ max_steps > 0 /\ ~IsAccepting(Root)
             /\ Lookup(tm, Root.state, Root.head) = <<>>) =>
           /\ run.out.outcome = "Rejected"
           /\ run.out.depth = 0
           /\ run.out.transitions = 0

C5_Witness ==
    Done /\ run.out.outcome = "Rejected" /\ run.out.depth = 2

\* C6: with a budget of 0 nothing is dequeued and the report is
\* Inconclusive with 0 transitions, also when the start state accepts.
C6_ZeroBudget ==
    max_steps = 0 =>
        /\ run.steps = 0
        /\ DOMAIN run.visited_depths = {}
        /\ Len(run.queue) = 1
        /\ run.queue[1].tape = Root
        /\ Done => /\ run.out.outcome = "Inconclusive"
                   /\ run.out.transitions = 0

C6_Witness ==
    Done /\ max_steps = 0 /\ IsAccepting(Root) /\ run.out.outcome = "Inconclusive"

\* Scenario D: the start state has exactly two rules on 'a', one into an
\* accept state, the other moving right into a state q that is neither
\* accepting nor rejecting and steps right on blank for ever.
LoopsOnBlank(q) ==
    /\ q \notin tm.accept_states
    /\ q # tm.reject_state
    /\ Lookup(tm, q, Blank) = <<[dest |-> q, write |-> Blank, move |-> "R"]>>

ScenarioD(first, second) ==
    LET rules == Lookup(tm, tm.start_state, "a")
    IN  /\ input_str = <<"a">>
        /\ ~IsTerminal(Root)
        /\ Len(rules) = 2
        /\ rules[first].dest \in tm.accept_states
        /\ rules[second].move = "R"
        /\ LoopsOnBlank(rules[second].dest)

AcceptedAtDepthOne == run.out.outcome = "Accepted" /\ run.out.depth = 1

\* C7 as claimed: in scenario D every positive budget gives Accepted with
\* depth 1, whichever rule is declared first.
C7_EveryPositiveBudget ==
    (Done /\ max_steps >= 1 /\ (ScenarioD(1, 2) \/ ScenarioD(2, 1))) =>
        AcceptedAtDepthOne

\* C7 as amended: in scenario D every budget of at least 3 gives Accepted
\* with depth 1 whichever rule is declared first, and a budget of 2 does so
\* when the accepting rule is declared first.
C7_SufficientBudget ==
    /\ (Done /\ max_steps >= 3 /\ (ScenarioD(1, 2) \/ ScenarioD(2, 1))) =>
           AcceptedAtDepthOne
    /\ (Done /\ max_steps = 2 /\ ScenarioD(1, 2)) => AcceptedAtDepthOne

C7_Witness ==
    Done /\ max_steps = 3 /\ ScenarioD(2, 1) /\ AcceptedAtDepthOne /\ run.steps = 2

\* C8: the reported total of transitions is the number of successor
\* configurations the expansion loop created and enqueued.
C8_TransitionsCountApplications ==
    Done => run.out.transitions = Applications

\* Scenario A: the single rule (q0,'a') -> (qf,'a',R), qf accepting.
ScenarioA ==
    /\ tm.start_state = "q0"
    /\ tm.accept_states = {"qf"}
    /\ DOMAIN tm.transitions = {<<"q0", "a">>}
    /\ tm.transitions[<<"q0", "a">>] = <<[dest |-> "qf", write |-> "a", move |-> "R"]>>

\* C9: an accepting run reports as depth of the tree the depth of its
\* witness, which is the number of transitions of the reported path;
\* scenario A on input 'a' with budget 10 gives Accepted with depth 1.
C9_DepthOfWitness ==
    /\ (Done /\ run.out.outcome = "Accepted") =>
           /\ run.out.depth = run.depth
           /\ run.out.depth = Len(run.out.path) - 1
           /\ run.out.accepted_in = run.out.depth
           /\ run.out.depth = MaxOf(DOMAIN run.visited_depths)
           /\ run.current_tape \in Visited(run.out.depth)
    /\ (Done /\ ScenarioA /\ input_str = <<"a">> /\ max_steps = 10) =>
           AcceptedAtDepthOne

C9_Witness ==
    Done /\ ScenarioA /\ input_str = <<"a">> /\ max_steps = 10 /\ AcceptedAtDepthOne

Read(tape, i) ==
    IF i = 0 THEN tape.head
    ELSE IF i > 0
    THEN (IF i <= Len(tape.right) THEN tape.right[i] ELSE Blank)
    ELSE (IF -i <= Len(tape.left) THEN tape.left[Len(tape.left) + 1 + i] ELSE Blank)

\* How far from the head a cell of any tape of the run can lie.
Reach == MaxInputLen + MaxShifts + 1

\* A sequence and the same sequence after blanks were added in front of it.
BlanksInFront(short, long) ==
    /\ Len(long) >= Len(short)
    /\ \A i \in 1..Len(long) :
          long[i] = (IF i <= Len(long) - Len(short)
                     THEN Blank ELSE short[i - (Len(long) - Len(short))])

\* The i-th rule applied writes back the symbol it read.
Rewrites(i) == run.rules[i].write = run.path[i].head

\* C11: a transition that rewrites what it reads and moves left, then one
\* that rewrites what it reads and moves right, gives back the head symbol
\* and the same cells, up to blanks added at the left end.
C11_LeftRightRoundTrip ==
    \A i \in 1..(Len(run.rules) - 1) :
        ( /\ run.rules[i].move = "L" /\ Rewrites(i)
          /\ run.rules[i + 1].move = "R" /\ Rewrites(i + 1) ) =>
            LET before == run.path[i]
                after  == run.path[i + 2]
            IN  /\ after.head = before.head
                /\ after.right = before.right
                /\ BlanksInFront(before.left, after.left)
                /\ \A k \in (-Reach)..Reach : Read(after, k) = Read(before, k)

C11_Witness ==
    /\ Len(run.rules) = 2
    /\ run.rules[1].move = "L" /\ Rewrites(1)
    /\ run.rules[2].move = "R" /\ Rewrites(2)
    /\ run.path[1].left = <<>>
    /\ run.path[1].head # Blank
    /\ run.path[1].right # <<>>
    /\ run.path[3].left = <<Blank>>

\* C12: the queue holds its entries in order of depth, of at most two
\* consecutive depths, none shallower than the configuration dequeued last;
\* the depths dequeued so far are 0 up to the depth dequeued last.
C12_GenerationBarrier ==
    LET q == run.queue
    IN  /\ \A i \in 1..(Len(q) - 1) : q[i].depth <= q[i + 1].depth
        /\ q # <<>> => Last(q).depth <= q[1].depth + 1
        /\ DOMAIN run.visited_depths # {} =>
              /\ DOMAIN run.visited_depths = 0..run.depth
              /\ \A i \in 1..Len(q) : q[i].depth \in {run.depth, run.depth + 1}

C12_Witness ==
    /\ Len(run.queue) >= 2
    /\ run.queue[1].depth = 1
    /\ Last(run.queue).depth = 2
    /\ run.depth = 1

\* The branches of the computation tree of length k: the rule chosen at each
\* step, by its place among the rules of its key, and the configurations
\* passed through.
RECURSIVE Branches(_)
Branches(k) ==
    IF k = 0 THEN {[choices |-> <<>>, path |-> <<Root>>]}
    ELSE UNION { LET c     == Last(b.path)
                     rules == IF IsTerminal(c) THEN <<>> ELSE Lookup(tm, c.state, c.head)
                 IN  { [ choices |-> Append(b.choices, i),
                         path    |-> Append(b.path, NewTape(c, rules[i])) ] :
                       i \in 1..Len(rules) } :
                 b \in Branches(k - 1) }

\* Lexicographic order on sequences of choices of the same length.
LexLess(a, b) ==
    \E i \in 1..Len(a) : a[i] < b[i] /\ \A j \in 1..(i - 1) : a[j] = b[j]

AcceptingBranches(d) == {b \in Branches(d) : IsAccepting(Last(b.path))}

\* The table keeps the rules of a key in the order of their lines.
DeclaredOrderKept ==
    \A l1 \in LinesQ0A, l4 \in LinesQ1Blank :
        LET m == parse_tm_file("q0", {"qf"}, "qr", l4 \o l1)
        IN  /\ Lookup(m, "q0", "a") = [i \in 1..Len(l1) |-> Rule(l1[i])]
            /\ Lookup(m, "q1", Blank) = [i \in 1..Len(l4) |-> Rule(l4[i])]

\* C13: the reported path is that of the accepting branch of the witness
\* depth whose choices come first in lexicographic order, rules counted in
\* the order of their declaration.
C13_FirstDeclaredWins ==
    /\ DeclaredOrderKept
    /\ (Done /\ run.out.outcome = "Accepted") =>
           \E w \in AcceptingBranches(run.out.depth) :
               /\ w.path = run.out.path
               /\ \A o \in AcceptingBranches(run.out.depth) :
                      o.choices # w.choices => LexLess(w.choices, o.choices)

C13_Witness ==
    /\ Done
    /\ run.out.outcome = "Accepted"
    /\ run.out.depth = 2
    /\ \E a, b \in AcceptingBranches(2) : a.path # b.path /\ a.choices[1] # b.choices[1]

\* C14: an iteration that dequeues an accepting configuration (rejecting as
\* well or not) ends the loop and appends nothing; one that dequeues a
\* rejecting configuration, or one with no rule for (state, head), appends
\* nothing and leaves steps as it was, whatever rules the table holds.
C14_TerminalConfigurations ==
    [][ (run.pc = "while" /\ LoopCond(run)) =>
          LET tape == Head(run.queue).tape
          IN  /\ IsAccepting(tape) =>
                    /\ run'.accepted
                    /\ run'.pc = "output"
                    /\ run'.queue = Tail(run.queue)
                    /\ run'.steps = run.steps
              /\ (~IsAccepting(tape) /\ (IsRejecting(tape)
                                          \/ Lookup(tm, tape.state, tape.head) = <<>>)) =>
                    /\ ~run'.accepted
                    /\ run'.pc = "while"
                    /\ run'.queue = Tail(run.queue)
                    /\ run'.steps = run.steps ]_vars

C14_Witness ==
    /\ run.pc = "while"
    /\ ~run.accepted
    /\ run.steps < max_steps
    /\ IsRejecting(run.current_tape)
    /\ Lookup(tm, run.current_tape.state, run.current_tape.head) # <<>>
    /\ run.depth = 1

\* Sequence a is the beginning of sequence b.
IsPrefix(a, b) == Len(a) <= Len(b) /\ \A i \in 1..Len(a) : b[i] = a[i]

Moves(m, n) == Cardinality({i \in 1..n : run.rules[i].move = m})

\* C16: the configuration reads, cell by cell around the head, as the
\* infinite blank-padded tape that started with the input and went through
\* the same writes and moves; each transition leaves the written cell exactly
\* one place behind the head, and a move past the end of left or right reads
\* a blank.
C16_RefinesInfiniteTape ==
    /\ \A k \in (-Reach)..Reach :
          Read(run.current_tape, k) = CellAt(twin, twin.pos + k)
    /\ twin.pos = Moves("R", Len(run.rules)) - Moves("L", Len(run.rules))
    /\ \A i \in 1..Len(run.rules) :
          LET rule    == run.rules[i]
              written == [run.path[i] EXCEPT !.head = rule.write]
              after   == run.path[i + 1]
          IN  /\ rule.move = "R" =>
                    /\ \A k \in (-Reach)..Reach : Read(after, k) = Read(written, k + 1)
                    /\ run.path[i].right = <<>> => after.head = Blank
              /\ rule.move = "L" =>
                    /\ \A k \in (-Reach)..Reach : Read(after, k) = Read(written, k - 1)
                    /\ run.path[i].left = <<>> => after.head = Blank

C16_Witness ==
    /\ Len(run.rules) = 3
    /\ run.rules[1].move = "L" /\ run.rules[1].write # Blank
    /\ run.rules[2].move = "R" /\ run.rules[2].write # Blank
    /\ run.rules[3].move = "R"
    /\ run.path[3].right = <<>>
    /\ run.current_tape.head = Blank
    /\ twin.pos = 1

Outcomes == {"Accepted", "Rejected", "Inconclusive"}

\* C17: every run leaves the loop and reports one of the three outcomes.
C17_Terminates == <>(Done /\ run.out.outcome \in Outcomes)

C17_Witness ==
    /\ Done
    /\ max_steps = MaxBudget
    /\ run.steps = max_steps
    /\ run.out.outcome = "Inconclusive"
    /\ Len(run.queue) >= 2
    /\ \A i \in 1..Len(run.queue) : ~IsTerminal(run.queue[i].tape)

\* C18: a run that reports Rejected has emptied its queue, has dequeued
\* every configuration of every generation, and none of them accepts; no
\* generation is left within or beyond the budget.
C18_RejectedIsSound ==
    (Done /\ run.out.outcome = "Rejected") =>
        /\ run.queue = <<>>
        /\ \A k \in 0..max_steps :
              /\ Visited(k) = Generation(k)
              /\ \A c \in Generation(k) : ~IsAccepting(c)
        /\ Generation(max_steps) = {}

C18_Witness ==
    /\ Done
    /\ run.out.outcome = "Rejected"
    /\ run.out.depth = 2
    /\ Cardinality(Generation(1)) = 2
    /\ \E c \in Generation(1) : IsRejecting(c)

\* C19: no configuration is dequeued at a depth above the current count of
\* steps; the reported depth is at most the reported total of transitions,
\* which is at most the budget.
C19_DepthWithinSteps ==
    /\ \A k \in DOMAIN run.visited_depths : k <= run.steps
    /\ run.depth <= run.steps
    /\ Done => /\ run.out.depth <= run.out.transitions
               /\ run.out.transitions <= max_steps

C19_Witness ==
    /\ Done
    /\ run.out.depth = 3
    /\ run.out.transitions = 3
    /\ max_steps > 3

====
